---- MODULE Spec2Model ----
(***************************************************************************)
(* Resource lifecycle layer of the masters-academy backend:                *)
(*   - the course controller (createCourse / updateCourse / deleteCourse)  *)
(*     and the Cloudinary adapter it drives (uploadToCloudinary,           *)
(*     deleteImage, extractPublicId);                                      *)
(*   - the cached MongoDB connection (connectDB with global.mongoose) and  *)
(*     the ensure-DB middleware (initializeDB);                            *)
(*   - the earlier connectDB with a module-level conn, connection event    *)
(*     handlers and process.exit.                                          *)
(*   - extractPublicId applied on its own to bounded URL strings.          *)
(*   - process start: the environment check of the Cloudinary module and   *)
(*     the first initializeDB.                                             *)
(* Strings are sequences of tokens; "/" and "." are the separator tokens.  *)
(***************************************************************************)
EXTENDS Integers, Sequences, FiniteSets, TLC

\* ------------------------------------------------------------------ bounds
NumProcs == 2
NumReqs == 3
MaxConnects == 2
MaxUploads == 2
MaxCourses == 1
MaxTailLen == 5

VARIABLES
  blobs,      \* public ids (token strings) of the assets the blob store holds
  courses,    \* the Course collection: id -> document
  nextBlob,   \* number of assets the store has named so far
  nextCourse, \* number of documents created so far
  inv         \* per invocation: the handler's locals and its position

mediaVars == <<blobs, courses, nextBlob, nextCourse, inv>>

VARIABLES
  cached,      \* global.mongoose: {conn, promise}
  dbConnected, \* the server module's flag
  connects,    \* mongoose.connect calls made so far
  attempt,     \* per connect call: its promise chain and who awaits it
  req,         \* per request: position and what it observed
  microtasks,  \* the promise job queue, run to empty before the next event
  dropped      \* handles for which a connection-health signal was reported

cacheVars == <<cached, dbConnected, connects, attempt, req, microtasks, dropped>>

VARIABLES
  conn,       \* the earlier connectDB's module-level handle
  listeners,  \* 'error' / 'disconnected' handler pairs registered so far
  running     \* the process has not exited

legacyVars == <<conn, listeners, running>>

VARIABLES
  call        \* one direct call of extractPublicId: its argument and result

callVars == <<call>>

VARIABLES
  boot        \* the process from module load on: its environment and position

bootVars == <<boot>>

Procs == 1..NumProcs

\* ------------------------------------------------------- strings and URLs
RECURSIVE SplitAcc(_, _, _, _)
SplitAcc(s, sep, cur, acc) ==
  IF s = <<>> THEN Append(acc, cur)
  ELSE IF Head(s) = sep
       THEN SplitAcc(Tail(s), sep, <<>>, Append(acc, cur))
       ELSE SplitAcc(Tail(s), sep, Append(cur, Head(s)), acc)

\* String.prototype.split(sep): never empty, "" splits to [""]
Split(s, sep) == SplitAcc(s, sep, <<>>, <<>>)

\* url.split('/') -> last part -> split('.')[0]
extractPublicId(url) ==
  LET parts == Split(url, "/")
      filename == parts[Len(parts)]
  IN  Split(filename, ".")[1]

Folder == "masters-academy"
BaseUrl == <<"https:", "/", "/", "res.cloudinary.com", "/", "upload">>
AssetNames == <<"a1", "a2", "a3", "a4", "a5">>

\* the public id the store gives the n-th upload into the configured folder
PublicIdOf(n) == <<Folder, "/", AssetNames[n]>>
\* result.secure_url of an asset: <base-url>/<public-id>.<ext>
SecureUrl(publicId) == BaseUrl \o <<"/">> \o publicId \o <<".", "jpg">>

NoImage == <<>>
\* a media value a client may put in the request body
ClientUrl == BaseUrl \o <<"/", "client", ".", "jpg">>

\* the blob a reference names is in the store
BlobExists(url) == \E k \in blobs : SecureUrl(k) = url

\* ------------------------------------------------- requests and documents
Titles == {"t1", "t2"}
\* req.body.image: no such field, {} (empty object), "" or a URL string
BodyImages == {"absent", "emptyobj", "empty", "url"}
BodyTitles == {"absent"} \cup Titles
CourseIds == 1..MaxCourses

NoCourse == [found |-> FALSE, title |-> "", image |-> NoImage]
Found(doc) == [found |-> TRUE, title |-> doc.title, image |-> doc.image]

\* Course.findById(id): the document, or null
findById(id) == IF id \in DOMAIN courses THEN Found(courses[id]) ELSE NoCourse

\* JavaScript truthiness of a string field
Truthy(str) == str # <<>>

\* ------------------------------------------------ the multipart file filter
\* limits.fileSize of the multer instance: 5MB
MaxFileSize == 5 * 1024 * 1024
FileSizes == {1, MaxFileSize + 1}
Mimetypes == {<<"image", "/", "png">>, <<"text", "/", "plain">>}

NoFile == [present |-> FALSE, size |-> 0, mimetype |-> <<>>]
Files == {NoFile} \cup [present : {TRUE}, size : FileSizes, mimetype : Mimetypes]

\* file.mimetype.startsWith('image/')
StartsWithImage(mimetype) ==
  Len(mimetype) >= 2 /\ mimetype[1] = "image" /\ mimetype[2] = "/"

\* variant: every mimetype passes the filter
fileFilterAny(file) == TRUE

\* fileFilter: cb(null, true) for images, cb(new Error(...), false) otherwise
fileFilter(file) == StartsWithImage(file.mimetype)

\* variant: no size limit
WithinLimitAny(file) == TRUE

\* limits: a file larger than fileSize aborts the request with an error
WithinLimit(file) == file.size <= MaxFileSize

\* the multer instance applied to one incoming file
upload(file) == fileFilter(file) /\ WithinLimit(file)

IdleInv ==
  [op |-> "none", pc |-> "idle", id |-> 0, hasFile |-> FALSE,
   file |-> NoFile,                         \* the file part as it was sent
   valid |-> TRUE,                          \* validationResult(req).isEmpty()
   bodyImage |-> "absent", bodyTitle |-> "absent",
   course |-> NoCourse,
   hasImage |-> FALSE, image |-> NoImage,   \* updateData / courseData .image
   uploaded |-> NoImage,                    \* uploadResult.secure_url
   uploads |-> 0,                           \* upload calls issued
   deletes |-> <<>>,                        \* deleteImage calls issued
   persisted |-> FALSE,                     \* the record mutation succeeded
   uploadResult |-> "none",                 \* how the upload call ended
   destroyResult |-> "none",                \* how the last deleteImage call ended
   persistResult |-> "none",                \* how the record mutation ended
   outcome |-> "none", status |-> 0, kind |-> ""]

Begin(op, id, hasFile, bodyImage, bodyTitle) ==
  [IdleInv EXCEPT !.op = op, !.id = id, !.hasFile = hasFile,
                  !.bodyImage = bodyImage, !.bodyTitle = bodyTitle]

\* res.status(status).json(...): the invocation's terminal state
Respond(i, status, kind) ==
  [i EXCEPT !.pc = "done", !.status = status, !.kind = kind,
            !.outcome = IF status \in {200, 201} THEN "Committed" ELSE "Rejected"]

\* the catch block shared by the three handlers: error.name -> status
CatchStatus(err) ==
  IF err \in {"ValidationError", "CastError"} THEN 400 ELSE 500

Idle(p) == inv[p].pc \in {"idle", "done"}

\* upload.single('image') ahead of the handler: a file the multer instance
\* refuses ends the request in the error middleware, the handler never runs;
\* otherwise the handler runs with req.file set iff a file was sent
UploadSingle(i, file, handled) ==
  IF file.present /\ ~upload(file)
  THEN Respond([i EXCEPT !.file = file, !.hasFile = FALSE], 400, "UploadRejected")
  ELSE handled

\* ---------------------------------------------------- the blob store (I/O)
UploadResults == {"ok", "nourl", "error"}
DestroyResults == {"resolved", "rejected"}

\* cloudinary.uploader.upload_stream: a stored asset gets a fresh public id
\* in the folder; "nourl" is a success callback whose result has no secure_url
StoreAfterUpload(r) == IF r = "error" THEN blobs ELSE blobs \cup {PublicIdOf(nextBlob + 1)}
CountAfterUpload(r) == IF r = "error" THEN nextBlob ELSE nextBlob + 1
UrlAfterUpload(r) == IF r = "ok" THEN SecureUrl(PublicIdOf(nextBlob + 1)) ELSE NoImage

\* cloudinary.uploader.destroy(publicId): removes the asset with that public
\* id; an unknown id resolves too ({result: 'not found'})
StoreAfterDestroy(publicId, r) == IF r = "resolved" THEN blobs \ {publicId} ELSE blobs

\* deleteImage(extractPublicId(url)) is issued for reference url
IssueDelete(i, url) ==
  [i EXCEPT !.deletes = Append(@, [ref |-> url, publicId |-> extractPublicId(url)])]

BodyHasImage(kind) == kind # "absent"
BodyImageValue(kind) == IF kind = "url" THEN ClientUrl ELSE NoImage
PersistResults == {"ok", "ValidationError", "CastError", "error"}

\* ------------------------------------------------------------ createCourse
\* variant: the image is optional, a create without a file goes on to persist
CreateStartOptional(i, valid) ==
  IF ~valid THEN Respond(i, 400, "ValidationFailed")
  ELSE IF i.hasFile
       THEN [i EXCEPT !.hasImage = BodyHasImage(i.bodyImage),
                      !.image = BodyImageValue(i.bodyImage),
                      !.pc = "c_upload", !.uploads = @ + 1]
       ELSE [i EXCEPT !.hasImage = BodyHasImage(i.bodyImage),
                      !.image = BodyImageValue(i.bodyImage), !.pc = "c_create"]

\* validationResult, courseData = {...req.body}, then the req.file branch
CreateStart(i, valid) ==
  IF ~valid THEN Respond(i, 400, "ValidationFailed")
  ELSE IF i.hasFile
       THEN [i EXCEPT !.hasImage = BodyHasImage(i.bodyImage),
                      !.image = BodyImageValue(i.bodyImage),
                      !.pc = "c_upload", !.uploads = @ + 1]
       ELSE Respond(i, 400, "MissingMedia")

\* variant: a failed upload is ignored and the record is created anyway
CreateAfterUploadLenient(i, r, url) ==
  IF r = "ok"
  THEN [i EXCEPT !.uploaded = url, !.hasImage = TRUE, !.image = url, !.pc = "c_create"]
  ELSE [i EXCEPT !.pc = "c_create"]

\* variant: an image value in the body wins over the uploaded one
CreateAfterUploadBody(i, r, url) ==
  IF r = "ok"
  THEN [i EXCEPT !.uploaded = url, !.hasImage = TRUE,
                 !.image = IF Truthy(i.image) THEN i.image ELSE url, !.pc = "c_create"]
  ELSE Respond(i, 400, "UploadFailed")

\* after await uploadToCloudinary: secure_url -> courseData.image, else 400
CreateAfterUpload(i, r, url) ==
  IF r = "ok"
  THEN [i EXCEPT !.uploaded = url, !.hasImage = TRUE, !.image = url, !.pc = "c_create"]
  ELSE Respond(i, 400, "UploadFailed")

\* after await Course.create: 201, or the catch block
CreateAfterPersist(i, r, newId) ==
  IF r = "ok"
  THEN Respond([i EXCEPT !.persisted = TRUE, !.id = newId], 201, "Created")
  ELSE Respond(i, CatchStatus(r), r)

createCourse(p) ==
  /\ Idle(p)
  /\ nextCourse < MaxCourses
  /\ \E valid \in BOOLEAN, file \in Files, bi \in BodyImages, bt \in Titles :
       LET i == [Begin("create", 0, file.present, bi, bt) EXCEPT !.file = file]
       IN  /\ file.present => nextBlob < MaxUploads
           /\ inv' = [inv EXCEPT ![p] =
                        UploadSingle(i, file, CreateStart([i EXCEPT !.valid = valid], valid))]
  /\ UNCHANGED <<blobs, courses, nextBlob, nextCourse>>
  /\ UNCHANGED <<cacheVars, legacyVars, callVars, bootVars>>

createCourse_upload(p) ==
  /\ inv[p].pc = "c_upload"
  /\ \E r \in UploadResults :
       /\ blobs' = StoreAfterUpload(r)
       /\ nextBlob' = CountAfterUpload(r)
       /\ inv' = [inv EXCEPT ![p] =
                    [CreateAfterUpload(inv[p], r, UrlAfterUpload(r)) EXCEPT !.uploadResult = r]]
  /\ UNCHANGED <<courses, nextCourse>>
  /\ UNCHANGED <<cacheVars, legacyVars, callVars, bootVars>>

createCourse_create(p) ==
  /\ inv[p].pc = "c_create"
  /\ \E r \in PersistResults :
       /\ courses' = IF r = "ok"
                     THEN courses @@ ((nextCourse + 1) :>
                            [title |-> inv[p].bodyTitle, image |-> inv[p].image])
                     ELSE courses
       /\ nextCourse' = IF r = "ok" THEN nextCourse + 1 ELSE nextCourse
       /\ inv' = [inv EXCEPT ![p] =
                    [CreateAfterPersist(inv[p], r, nextCourse + 1) EXCEPT !.persistResult = r]]
  /\ UNCHANGED <<blobs, nextBlob>>
  /\ UNCHANGED <<cacheVars, legacyVars, callVars, bootVars>>

\* ------------------------------------------------------------ updateCourse
\* variant: without a file the image field is always taken from the body
UpdateDataBody(i, course) ==
  IF i.hasFile
  THEN [i EXCEPT !.course = course, !.hasImage = i.bodyImage \in {"empty", "url"},
                 !.image = BodyImageValue(i.bodyImage),
                 !.pc = "u_upload", !.uploads = @ + 1]
  ELSE [i EXCEPT !.course = course, !.hasImage = TRUE,
                 !.image = BodyImageValue(i.bodyImage), !.pc = "u_update"]

\* variant: the upload is started but not awaited before the update is issued
UpdateDataNoAwait(i, course) ==
  LET own == i.bodyImage \in {"empty", "url"}
  IN  IF i.hasFile
      THEN [i EXCEPT !.course = course, !.hasImage = own,
                     !.image = BodyImageValue(i.bodyImage),
                     !.pc = "u_update", !.uploads = @ + 1]
      ELSE [i EXCEPT !.course = course, !.hasImage = TRUE,
                     !.image = IF own THEN BodyImageValue(i.bodyImage) ELSE course.image,
                     !.pc = "u_update"]

\* updateData = {...req.body}; an empty image object is removed; without a
\* file the existing image is kept unless the body has its own image field
UpdateData(i, course) ==
  LET own == i.bodyImage \in {"empty", "url"}
  IN  IF i.hasFile
      THEN [i EXCEPT !.course = course, !.hasImage = own,
                     !.image = BodyImageValue(i.bodyImage),
                     !.pc = "u_upload", !.uploads = @ + 1]
      ELSE [i EXCEPT !.course = course, !.hasImage = TRUE,
                     !.image = IF own THEN BodyImageValue(i.bodyImage) ELSE course.image,
                     !.pc = "u_update"]

\* variant: the result of findById is not tested
UpdateAfterFindBlind(i, course) == UpdateData(i, course)

\* after await Course.findById
UpdateAfterFind(i, course) ==
  IF ~course.found THEN Respond(i, 404, "NotFound") ELSE UpdateData(i, course)

\* variant: the old image is deleted before the upload result is looked at
UpdateAfterUploadEager(i, r, url) ==
  IF Truthy(i.course.image)
  THEN [IssueDelete(i, i.course.image) EXCEPT !.uploaded = url, !.pc = "u_destroy"]
  ELSE IF r = "ok"
       THEN [i EXCEPT !.uploaded = url, !.hasImage = TRUE, !.image = url, !.pc = "u_update"]
       ELSE Respond(i, 400, "UploadFailed")

\* variant: any success callback counts, with or without a secure_url
UpdateAfterUploadAnyResult(i, r, url) ==
  IF r # "error"
  THEN IF Truthy(i.course.image)
       THEN [IssueDelete(i, i.course.image) EXCEPT !.uploaded = url, !.pc = "u_destroy"]
       ELSE [i EXCEPT !.uploaded = url, !.hasImage = TRUE, !.image = url, !.pc = "u_update"]
  ELSE Respond(i, 400, "UploadFailed")

\* after await uploadToCloudinary: with a secure_url the old image's delete is
\* issued (if the course has one), else updateData.image is set; no url -> 400
UpdateAfterUpload(i, r, url) ==
  IF r = "ok"
  THEN IF Truthy(i.course.image)
       THEN [IssueDelete(i, i.course.image) EXCEPT !.uploaded = url, !.pc = "u_destroy"]
       ELSE [i EXCEPT !.uploaded = url, !.hasImage = TRUE, !.image = url, !.pc = "u_update"]
  ELSE Respond(i, 400, "UploadFailed")

\* variant: updateData.image is not set to the uploaded url
UpdateAfterDestroyKeep(i) == [i EXCEPT !.pc = "u_update"]

\* variant: a rejected deleteImage ends the request
UpdateAfterDestroyStrict(i) ==
  IF i.destroyResult = "rejected" THEN Respond(i, 500, "DeleteFailed")
  ELSE [i EXCEPT !.hasImage = TRUE, !.image = i.uploaded, !.pc = "u_update"]

\* after await deleteImage (its failure is caught and logged)
UpdateAfterDestroy(i) ==
  [i EXCEPT !.hasImage = TRUE, !.image = i.uploaded, !.pc = "u_update"]

\* findByIdAndUpdate outcomes: null when no document has the id
UpdateResults(id) ==
  IF id \in DOMAIN courses THEN PersistResults ELSE {"null", "error"}

\* after await Course.findByIdAndUpdate: updatedCourse._id of null throws
UpdateAfterPersist(i, r) ==
  IF r = "ok" THEN Respond([i EXCEPT !.persisted = TRUE], 200, "Updated")
  ELSE IF r = "null" THEN Respond(i, 500, "TypeError")
  ELSE Respond(i, CatchStatus(r), r)

\* the document after $set of updateData
Updated(doc, i) ==
  [title |-> IF i.bodyTitle = "absent" THEN doc.title ELSE i.bodyTitle,
   image |-> IF i.hasImage THEN i.image ELSE doc.image]

\* validationResult at the head of the handler
UpdateStart(i, valid) ==
  IF valid THEN [i EXCEPT !.pc = "u_find"] ELSE Respond(i, 400, "ValidationFailed")

\* a PUT /api/courses/:id request with the given inputs reaches the handler
UpdateArrival(p, id, valid, file, bi, bt) ==
  LET i == [Begin("replace", id, file.present, bi, bt) EXCEPT !.file = file]
  IN  /\ file.present => nextBlob < MaxUploads
      /\ inv' = [inv EXCEPT ![p] =
                   UploadSingle(i, file, UpdateStart([i EXCEPT !.valid = valid], valid))]

updateCourse(p) ==
  /\ Idle(p)
  /\ \E id \in CourseIds, valid \in BOOLEAN, file \in Files,
        bi \in BodyImages, bt \in BodyTitles :
       UpdateArrival(p, id, valid, file, bi, bt)
  /\ UNCHANGED <<blobs, courses, nextBlob, nextCourse>>
  /\ UNCHANGED <<cacheVars, legacyVars, callVars, bootVars>>

\* the same request in the concurrent runs: valid fields, no file or an image
\* file the filter accepts, no image or title field in the body
RaceFiles == {f \in Files : ~f.present \/ upload(f)}

updateCourse_race(p) ==
  /\ Idle(p)
  /\ \E id \in CourseIds, file \in RaceFiles :
       UpdateArrival(p, id, TRUE, file, "absent", "absent")
  /\ UNCHANGED <<blobs, courses, nextBlob, nextCourse>>
  /\ UNCHANGED <<cacheVars, legacyVars, callVars, bootVars>>

updateCourse_find(p) ==
  /\ inv[p].pc = "u_find"
  /\ inv' = [inv EXCEPT ![p] = UpdateAfterFind(inv[p], findById(inv[p].id))]
  /\ UNCHANGED <<blobs, courses, nextBlob, nextCourse>>
  /\ UNCHANGED <<cacheVars, legacyVars, callVars, bootVars>>

updateCourse_upload(p) ==
  /\ inv[p].pc = "u_upload"
  /\ \E r \in UploadResults :
       /\ blobs' = StoreAfterUpload(r)
       /\ nextBlob' = CountAfterUpload(r)
       /\ inv' = [inv EXCEPT ![p] =
                    [UpdateAfterUpload(inv[p], r, UrlAfterUpload(r)) EXCEPT !.uploadResult = r]]
  /\ UNCHANGED <<courses, nextCourse>>
  /\ UNCHANGED <<cacheVars, legacyVars, callVars, bootVars>>

updateCourse_destroy(p) ==
  /\ inv[p].pc = "u_destroy"
  /\ \E r \in DestroyResults :
       /\ blobs' = StoreAfterDestroy(inv[p].deletes[Len(inv[p].deletes)].publicId, r)
       /\ inv' = [inv EXCEPT ![p] = UpdateAfterDestroy([inv[p] EXCEPT !.destroyResult = r])]
  /\ UNCHANGED <<courses, nextBlob, nextCourse>>
  /\ UNCHANGED <<cacheVars, legacyVars, callVars, bootVars>>

updateCourse_update(p) ==
  /\ inv[p].pc = "u_update"
  /\ \E r \in UpdateResults(inv[p].id) :
       /\ courses' = IF r = "ok"
                     THEN [courses EXCEPT ![inv[p].id] = Updated(@, inv[p])]
                     ELSE courses
       /\ inv' = [inv EXCEPT ![p] =
                    [UpdateAfterPersist(inv[p], r) EXCEPT !.persistResult = r]]
  /\ UNCHANGED <<blobs, nextBlob, nextCourse>>
  /\ UNCHANGED <<cacheVars, legacyVars, callVars, bootVars>>

\* ------------------------------------------------------------ deleteCourse
\* after await Course.findById: the image's delete is issued before the record's
DeleteAfterFind(i, course) ==
  IF ~course.found THEN Respond(i, 404, "NotFound")
  ELSE IF Truthy(course.image)
       THEN [IssueDelete(i, course.image) EXCEPT !.course = course, !.pc = "d_destroy"]
       ELSE [i EXCEPT !.course = course, !.pc = "d_delete"]

DeleteAfterDestroy(i) == [i EXCEPT !.pc = "d_delete"]

\* after await Course.findByIdAndDelete
DeleteAfterPersist(i, r) ==
  IF r = "ok" THEN Respond([i EXCEPT !.persisted = TRUE], 200, "Deleted")
  ELSE Respond(i, 500, r)

Remaining(id) == [c \in DOMAIN courses \ {id} |-> courses[c]]

deleteCourse(p) ==
  /\ Idle(p)
  /\ \E id \in CourseIds :
       inv' = [inv EXCEPT ![p] =
                 [Begin("delete", id, FALSE, "absent", "absent") EXCEPT !.pc = "d_find"]]
  /\ UNCHANGED <<blobs, courses, nextBlob, nextCourse>>
  /\ UNCHANGED <<cacheVars, legacyVars, callVars, bootVars>>

deleteCourse_find(p) ==
  /\ inv[p].pc = "d_find"
  /\ inv' = [inv EXCEPT ![p] = DeleteAfterFind(inv[p], findById(inv[p].id))]
  /\ UNCHANGED <<blobs, courses, nextBlob, nextCourse>>
  /\ UNCHANGED <<cacheVars, legacyVars, callVars, bootVars>>

deleteCourse_destroy(p) ==
  /\ inv[p].pc = "d_destroy"
  /\ \E r \in DestroyResults :
       /\ blobs' = StoreAfterDestroy(inv[p].deletes[Len(inv[p].deletes)].publicId, r)
       /\ inv' = [inv EXCEPT ![p] = DeleteAfterDestroy([inv[p] EXCEPT !.destroyResult = r])]
  /\ UNCHANGED <<courses, nextBlob, nextCourse>>
  /\ UNCHANGED <<cacheVars, legacyVars, callVars, bootVars>>

deleteCourse_delete(p) ==
  /\ inv[p].pc = "d_delete"
  /\ \E r \in {"ok", "error"} :
       /\ courses' = IF r = "ok" THEN Remaining(inv[p].id) ELSE courses
       /\ inv' = [inv EXCEPT ![p] =
                    [DeleteAfterPersist(inv[p], r) EXCEPT !.persistResult = r]]
  /\ UNCHANGED <<blobs, nextBlob, nextCourse>>
  /\ UNCHANGED <<cacheVars, legacyVars, callVars, bootVars>>

\* the process dies between two steps of an invocation
Crash(p) ==
  /\ ~Idle(p)
  /\ inv' = [inv EXCEPT ![p] = [@ EXCEPT !.pc = "done", !.outcome = "Crashed"]]
  /\ UNCHANGED <<blobs, courses, nextBlob, nextCourse>>
  /\ UNCHANGED <<cacheVars, legacyVars, callVars, bootVars>>

MediaInit ==
  /\ blobs = {}
  /\ courses = <<>>
  /\ nextBlob = 0
  /\ nextCourse = 0
  /\ inv = [p \in Procs |-> IdleInv]

Step(p) ==
  \/ createCourse(p) \/ createCourse_upload(p) \/ createCourse_create(p)
  \/ updateCourse(p) \/ updateCourse_find(p) \/ updateCourse_upload(p)
  \/ updateCourse_destroy(p) \/ updateCourse_update(p)
  \/ deleteCourse(p) \/ deleteCourse_find(p) \/ deleteCourse_destroy(p)
  \/ deleteCourse_delete(p)
  \/ Crash(p)

\* a course created earlier with an uploaded image, and no request running
RaceInit ==
  /\ blobs = {PublicIdOf(1)}
  /\ courses = (1 :> [title |-> "t1", image |-> SecureUrl(PublicIdOf(1))])
  /\ nextBlob = 1
  /\ nextCourse = 1
  /\ inv = [p \in Procs |-> IdleInv]

\* requests for the existing course, handled concurrently: every await is a
\* point where another request's handler may run
RaceStep(p) ==
  \/ updateCourse_race(p) \/ updateCourse_find(p) \/ updateCourse_upload(p)
  \/ updateCourse_destroy(p) \/ updateCourse_update(p)
  \/ deleteCourse(p) \/ deleteCourse_find(p) \/ deleteCourse_destroy(p)
  \/ deleteCourse_delete(p)

RaceNext == \E p \in Procs : RaceStep(p)

\* invocations run one at a time: a single request slot is in use
Main == CHOOSE p \in Procs : TRUE

MediaNext == Step(Main)

\* ===================================================== media lifecycle claims
StoredRefsExist ==
  \A id \in DOMAIN courses :
    Truthy(courses[id].image) => BlobExists(courses[id].image)

\* C1: every stored record whose media reference is present references a
\* blob that exists in the blob store, in every state reachable by Create,
\* Replace and Delete run one at a time with failures and crashes.
CE_C1 == StoredRefsExist

\* C3: in Replace with new bytes no delete of the old reference is issued
\* before the record has been persisted with the new reference.
CE_C3 ==
  \A p \in Procs :
    (inv[p].op = "replace" /\ inv[p].deletes # <<>>) => inv[p].persisted

\* C4: in Delete the repository record is deleted first and the blob second:
\* once the blob delete has been issued the record is no longer stored.
CE_C4 ==
  \A p \in Procs :
    (inv[p].op = "delete" /\ inv[p].deletes # <<>>) => ~findById(inv[p].id).found

UploadFailedIn(i) == i.uploadResult \in {"nourl", "error"}
PersistFailedIn(i) == i.persistResult \notin {"none", "ok"}
DeletesFor(i, url) == {k \in DOMAIN i.deletes : i.deletes[k].ref = url}

\* C5: in Replace with new bytes, if the upload fails, the invocation ends
\* Rejected, the stored record is unchanged (same fields, same reference) and
\* no delete has been issued against the old reference.
Thm_C5 ==
  \A p \in Procs :
    (inv[p].op = "replace" /\ inv[p].hasFile /\ UploadFailedIn(inv[p])) =>
      /\ inv[p].pc = "done" /\ inv[p].outcome = "Rejected"
      /\ inv[p].deletes = <<>>
      /\ ~inv[p].persisted
      /\ findById(inv[p].id) = inv[p].course

Wit_C5 ==
  \E p \in Procs :
    /\ inv[p].op = "replace" /\ inv[p].hasFile /\ UploadFailedIn(inv[p])
    /\ inv[p].outcome = "Rejected"
    /\ Truthy(inv[p].course.image)
    /\ findById(inv[p].id) = inv[p].course

\* C6: in Create, if the upload succeeds but persisting fails, exactly one
\* delete is issued for the uploaded reference, the invocation ends Rejected
\* and no record is created.
CE_C6 ==
  \A p \in Procs :
    (inv[p].op = "create" /\ inv[p].uploadResult = "ok" /\ PersistFailedIn(inv[p])) =>
      /\ Cardinality(DeletesFor(inv[p], inv[p].uploaded)) = 1
      /\ inv[p].outcome = "Rejected"
      /\ ~inv[p].persisted

\* C7: in Replace with new bytes, if the upload succeeds but persisting
\* fails, a delete is issued for the new reference, the invocation ends
\* Rejected, and the old reference's blob has not been deleted.
CE_C7 ==
  \A p \in Procs :
    (inv[p].op = "replace" /\ inv[p].uploadResult = "ok" /\ PersistFailedIn(inv[p])) =>
      /\ DeletesFor(inv[p], inv[p].uploaded) # {}
      /\ inv[p].outcome = "Rejected"
      /\ DeletesFor(inv[p], inv[p].course.image) = {}
      /\ Truthy(inv[p].course.image) => BlobExists(inv[p].course.image)

Thm_C13 ==
  \A p \in Procs :
    (inv[p].op = "create" /\ ~inv[p].file.present) =>
      /\ inv[p].pc = "done" /\ inv[p].outcome = "Rejected"
      /\ inv[p].valid => inv[p].kind = "MissingMedia"
      /\ inv[p].uploads = 0 /\ inv[p].uploadResult = "none"
      /\ ~inv[p].persisted /\ inv[p].persistResult = "none"

Wit_C13 ==
  \E p \in Procs :
    /\ inv[p].op = "create" /\ ~inv[p].file.present /\ inv[p].valid
    /\ inv[p].kind = "MissingMedia" /\ inv[p].status = 400

\* C14: in Create, if the upload is rejected or fails, the invocation ends
\* Rejected and no step of the invocation changes the set of stored records.
Thm_C14 ==
  [][\A p \in Procs :
       (inv'[p].op = "create" /\ inv'[p].persistResult = "none") =>
         /\ courses' = courses
         /\ UploadFailedIn(inv'[p]) =>
              /\ inv'[p].pc = "done" /\ inv'[p].outcome = "Rejected"
              /\ ~inv'[p].persisted]_mediaVars

Wit_C14 ==
  \E p \in Procs :
    /\ inv[p].op = "create" /\ UploadFailedIn(inv[p])
    /\ inv[p].outcome = "Rejected" /\ inv[p].kind = "UploadFailed"

\* C15: a mutation request whose file exceeds 5 MiB or whose MIME type does
\* not start with image/ is rejected locally: no call to the blob store is
\* issued and no record is created or changed.
Thm_C15 ==
  \A p \in Procs :
    (inv[p].file.present /\
       (inv[p].file.size > MaxFileSize \/ ~StartsWithImage(inv[p].file.mimetype))) =>
      /\ inv[p].pc = "done" /\ inv[p].outcome = "Rejected"
      /\ inv[p].kind = "UploadRejected"
      /\ inv[p].uploads = 0 /\ inv[p].uploadResult = "none"
      /\ inv[p].deletes = <<>>
      /\ ~inv[p].persisted /\ inv[p].persistResult = "none"

Wit_C15 ==
  \E p \in Procs :
    /\ inv[p].file.present /\ inv[p].file.size > MaxFileSize
    /\ StartsWithImage(inv[p].file.mimetype)
    /\ inv[p].kind = "UploadRejected" /\ inv[p].uploads = 0

\* C16: Replace of a record with media R1, with valid bytes, upload returning
\* R2 and a successful persist ends Committed, the stored media is R2 and
\* exactly one delete is issued, for R1.
Thm_C16 ==
  \A p \in Procs :
    (inv[p].op = "replace" /\ inv[p].uploadResult = "ok"
       /\ inv[p].persistResult = "ok" /\ Truthy(inv[p].course.image)) =>
      /\ inv[p].outcome = "Committed"
      /\ findById(inv[p].id).image = inv[p].uploaded
      /\ Len(inv[p].deletes) = 1
      /\ inv[p].deletes[1].ref = inv[p].course.image

Wit_C16 ==
  \E p \in Procs :
    /\ inv[p].op = "replace" /\ inv[p].uploadResult = "ok"
    /\ inv[p].persistResult = "ok" /\ Truthy(inv[p].course.image)
    /\ inv[p].uploaded # inv[p].course.image
    /\ findById(inv[p].id).image = inv[p].uploaded
    /\ inv[p].bodyImage = "url"

\* C17: Create with valid bytes, upload returning R1 and a successful persist
\* ends Committed and the created record's media is R1, whatever media value
\* the client payload carries.
Thm_C17 ==
  \A p \in Procs :
    (inv[p].op = "create" /\ inv[p].persistResult = "ok") =>
      /\ inv[p].outcome = "Committed"
      /\ Truthy(inv[p].uploaded)
      /\ findById(inv[p].id).image = inv[p].uploaded

Wit_C17 ==
  \E p \in Procs :
    /\ inv[p].op = "create" /\ inv[p].persistResult = "ok"
    /\ inv[p].bodyImage = "url"
    /\ findById(inv[p].id).image = inv[p].uploaded

\* C18: delete is idempotent: every delete the store answers returns Ok,
\* also a second one on the same reference, and the blob the reference names
\* is absent afterwards.
CE_C18 ==
  \A p \in Procs :
    inv[p].destroyResult = "resolved" =>
      ~BlobExists(inv[p].deletes[Len(inv[p].deletes)].ref)

\* C21: when the store answers an upload with a success response that has
\* no usable reference, the invocation ends Rejected as UploadFailed, no record
\* is created or changed and no delete is issued against an existing reference.
Thm_C21 ==
  \A p \in Procs :
    inv[p].uploadResult = "nourl" =>
      /\ inv[p].pc = "done" /\ inv[p].outcome = "Rejected"
      /\ inv[p].kind = "UploadFailed"
      /\ ~inv[p].persisted /\ inv[p].persistResult = "none"
      /\ inv[p].deletes = <<>>
      /\ inv[p].op = "replace" => findById(inv[p].id) = inv[p].course

Wit_C21 ==
  \E p \in Procs :
    /\ inv[p].uploadResult = "nourl" /\ inv[p].op = "replace"
    /\ Truthy(inv[p].course.image)
    /\ inv[p].kind = "UploadFailed" /\ inv[p].deletes = <<>>

\* C22: a failed cleanup delete is absorbed: in Replace with bytes and in
\* Delete the record mutation is still performed after a rejected blob delete,
\* and the outcome is Committed whenever that mutation succeeded.
Thm_C22 ==
  \A p \in Procs :
    (inv[p].op \in {"replace", "delete"} /\ inv[p].destroyResult = "rejected") =>
      /\ inv[p].kind # "DeleteFailed"
      /\ \/ inv[p].pc \in {"u_update", "d_delete"}
         \/ inv[p].persistResult # "none"
         \/ inv[p].outcome = "Crashed"
      /\ inv[p].persistResult = "ok" =>
           (inv[p].persisted /\ inv[p].outcome = "Committed")

Wit_C22 ==
  \E p \in Procs :
    /\ inv[p].op = "replace" /\ inv[p].destroyResult = "rejected"
    /\ inv[p].persistResult = "ok" /\ inv[p].outcome = "Committed"
    /\ findById(inv[p].id).image = inv[p].uploaded

\* C23: a Replace whose findByIdAndUpdate finds no record (it was deleted
\* after the initial find) ends Rejected with NotFound, not a server error.
CE_C23 ==
  \A p \in Procs :
    (inv[p].op = "replace" /\ inv[p].persistResult = "null") =>
      (inv[p].outcome = "Rejected" /\ inv[p].kind = "NotFound" /\ inv[p].status = 404)

PersistStarted(i) == i.pc \in {"c_create", "u_update", "d_delete"} \/ i.persistResult # "none"
UploadPending(i) == i.uploads > 0 /\ i.uploadResult = "none"
DeletePending(i) == i.deletes # <<>> /\ i.destroyResult = "none"

CE_C29 ==
  \A p \in Procs :
    (inv[p].op = "replace" /\ ~inv[p].file.present /\ inv[p].outcome = "Committed") =>
      findById(inv[p].id).image \in {inv[p].course.image, NoImage}

\* C30: for a blob uploaded into the configured folder, the key passed to
\* deleteImage (extractPublicId of the stored reference) is the
\* folder-qualified public id under which the store holds that blob.
CE_C30 ==
  \A p \in Procs : \A k \in DOMAIN inv[p].deletes : \A key \in blobs :
    SecureUrl(key) = inv[p].deletes[k].ref => inv[p].deletes[k].publicId = key

\* the request got past the file filter and the process did not die
Handled(i) ==
  i.pc # "idle" /\ i.outcome # "Crashed" /\ ~(i.file.present /\ ~upload(i.file))
NoBlobCalls(i) == i.uploads = 0 /\ i.uploadResult = "none" /\ i.deletes = <<>>

\* C31: a Replace or Delete addressed to a record id that does not exist, and
\* a Create or Replace rejected by field validation, ends Rejected without
\* issuing any blob upload or blob delete.
Thm_C31 ==
  \A p \in Procs :
    /\ (Handled(inv[p]) /\ inv[p].op \in {"create", "replace"} /\ ~inv[p].valid) =>
         /\ inv[p].pc = "done" /\ inv[p].outcome = "Rejected"
         /\ inv[p].kind = "ValidationFailed"
         /\ NoBlobCalls(inv[p]) /\ inv[p].persistResult = "none"
    /\ (Handled(inv[p]) /\ inv[p].op \in {"replace", "delete"} /\ inv[p].valid
          /\ inv[p].pc \notin {"u_find", "d_find"} /\ ~inv[p].course.found) =>
         /\ inv[p].pc = "done" /\ inv[p].outcome = "Rejected"
         /\ inv[p].kind = "NotFound" /\ inv[p].status = 404
         /\ NoBlobCalls(inv[p]) /\ inv[p].persistResult = "none"

Wit_C31 ==
  \E p \in Procs :
    /\ inv[p].op = "replace" /\ inv[p].valid
    /\ inv[p].file.present /\ upload(inv[p].file)
    /\ inv[p].kind = "NotFound" /\ NoBlobCalls(inv[p])
    /\ ~findById(inv[p].id).found

\* ==================================================== the cached connection
Reqs == 1..NumReqs
Attempts == 1..MaxConnects
Null == 0

IdleReq ==
  [pc |-> "idle", via |-> "none",
   awaited |-> Null,       \* the connect attempt whose promise it awaits
   started |-> FALSE,      \* its connectDB call made the mongoose.connect call
   handle |-> Null,        \* what connectDB returned to it
   failed |-> FALSE,       \* connectDB threw
   afterSignal |-> FALSE,  \* it arrived after a signal for the cached handle
   afterFailure |-> FALSE] \* it arrived after the latest attempt had failed

NoAttempt == [state |-> "unused", io |-> "none", waiters |-> <<>>]
Job(kind, n) == [kind |-> kind, n |-> n]
Quiet == microtasks = <<>>
Finished(r) == req[r].pc \in {"next", "done"}

\* variant: the cached handle is never taken
HasConnNever(c) == FALSE

\* if (cached.conn)
HasConn(c) == c.conn # Null

\* variant: a connect is started whether or not one is pending
NeedsConnectAlways(c) == TRUE

\* if (!cached.promise)
NeedsConnect(c) == c.promise = Null

\* variant: the failure path leaves the rejected promise cached
ClearPromiseKeep(c) == c

\* cached.promise = null, in the promise's catch handler and in the catch block
ClearPromise(c) == [c EXCEPT !.promise = Null]

LatestFailed == connects > 0 /\ attempt[connects].state = "rejected"

Arriving(r, via) ==
  [IdleReq EXCEPT !.via = via,
                  !.afterSignal = cached.conn \in dropped,
                  !.afterFailure = LatestFailed /\ cached.conn = Null]

\* what follows connectDB's return or throw in its caller
AfterConnectDB(r, via) == IF via = "middleware" THEN <<Job("init", r)>> ELSE <<>>
PcAfterConnectDB(via) == IF via = "middleware" THEN "returned" ELSE "done"

\* connectDB up to its await: the cached handle, or (start and) await the promise
connectDB(r, via) ==
  IF HasConn(cached)
  THEN /\ req' = [req EXCEPT ![r] = [Arriving(r, via) EXCEPT
                    !.pc = PcAfterConnectDB(via), !.handle = cached.conn]]
       /\ microtasks' = microtasks \o AfterConnectDB(r, via)
       /\ UNCHANGED <<cached, connects, attempt>>
  ELSE LET start == NeedsConnect(cached)
           a == IF start THEN connects + 1 ELSE cached.promise
           begun == IF start
                    THEN [attempt EXCEPT ![a] =
                            [state |-> "pending", io |-> "inflight", waiters |-> <<>>]]
                    ELSE attempt
           pending == begun[a].state = "pending"
       IN  /\ start => connects < MaxConnects
           /\ connects' = IF start THEN connects + 1 ELSE connects
           /\ cached' = IF start THEN [cached EXCEPT !.promise = a] ELSE cached
           /\ attempt' = IF pending
                         THEN [begun EXCEPT ![a].waiters = Append(@, r)]
                         ELSE begun
           /\ microtasks' = IF pending THEN microtasks
                            ELSE Append(microtasks, Job("resume", r))
           /\ req' = [req EXCEPT ![r] = [Arriving(r, via) EXCEPT
                        !.pc = "awaiting", !.awaited = a, !.started = start]]

\* the ensure-DB middleware: await initializeDB(); next()
middleware(r) ==
  /\ Quiet
  /\ req[r].pc \in {"idle", "next", "done"}
  /\ IF dbConnected
     THEN /\ req' = [req EXCEPT ![r] = [Arriving(r, "middleware") EXCEPT !.pc = "returned"]]
          /\ microtasks' = Append(microtasks, Job("mw", r))
          /\ UNCHANGED <<cached, connects, attempt>>
     ELSE connectDB(r, "middleware")
  /\ UNCHANGED <<dbConnected, dropped>>
  /\ UNCHANGED <<mediaVars, legacyVars, callVars, bootVars>>

\* server.js: connectDB() called when the module is loaded, result not awaited
server(r) ==
  /\ Quiet
  /\ req[r].pc \in {"idle", "next", "done"}
  /\ connectDB(r, "server")
  /\ UNCHANGED <<dbConnected, dropped>>
  /\ UNCHANGED <<mediaVars, legacyVars, callVars, bootVars>>

\* mongoose.connect settles (I/O)
connectSettles(a) ==
  /\ Quiet
  /\ attempt[a].io = "inflight"
  /\ \E ok \in BOOLEAN :
       /\ attempt' = [attempt EXCEPT ![a].io = IF ok THEN "ok" ELSE "err"]
       /\ microtasks' = <<Job(IF ok THEN "then" ELSE "catch", a)>>
  /\ UNCHANGED <<cached, dbConnected, connects, req, dropped>>
  /\ UNCHANGED <<mediaVars, legacyVars, callVars, bootVars>>

Resumes(a) == [k \in 1..Len(attempt[a].waiters) |-> Job("resume", attempt[a].waiters[k])]

\* .then((mongoose) => mongoose): cached.promise is fulfilled
thenHandler ==
  /\ ~Quiet /\ Head(microtasks).kind = "then"
  /\ LET a == Head(microtasks).n
     IN  /\ attempt' = [attempt EXCEPT ![a].state = "fulfilled", ![a].waiters = <<>>]
         /\ microtasks' = Tail(microtasks) \o Resumes(a)
  /\ UNCHANGED <<cached, dbConnected, connects, req, dropped>>
  /\ UNCHANGED <<mediaVars, legacyVars, callVars, bootVars>>

\* .catch((error) => { cached.promise = null; throw error })
catchHandler ==
  /\ ~Quiet /\ Head(microtasks).kind = "catch"
  /\ LET a == Head(microtasks).n
     IN  /\ cached' = ClearPromise(cached)
         /\ attempt' = [attempt EXCEPT ![a].state = "rejected", ![a].waiters = <<>>]
         /\ microtasks' = Tail(microtasks) \o Resumes(a)
  /\ UNCHANGED <<dbConnected, connects, req, dropped>>
  /\ UNCHANGED <<mediaVars, legacyVars, callVars, bootVars>>

\* try { cached.conn = await cached.promise } catch (e) { cached.promise = null; throw e }
connectDB_resume ==
  /\ ~Quiet /\ Head(microtasks).kind = "resume"
  /\ LET r == Head(microtasks).n
         a == req[r].awaited
         ok == attempt[a].state = "fulfilled"
     IN  /\ cached' = IF ok THEN [cached EXCEPT !.conn = a] ELSE ClearPromise(cached)
         /\ req' = [req EXCEPT ![r].pc = PcAfterConnectDB(req[r].via),
                               ![r].handle = IF ok THEN cached'.conn ELSE Null,
                               ![r].failed = ~ok]
         /\ microtasks' = Tail(microtasks) \o AfterConnectDB(r, req[r].via)
  /\ UNCHANGED <<dbConnected, connects, attempt, dropped>>
  /\ UNCHANGED <<mediaVars, legacyVars, callVars, bootVars>>

\* initializeDB after await connectDB(): dbConnected = true, or the error is logged
initializeDB_resume ==
  /\ ~Quiet /\ Head(microtasks).kind = "init"
  /\ LET r == Head(microtasks).n
     IN  /\ dbConnected' = IF req[r].failed THEN dbConnected ELSE TRUE
         /\ microtasks' = Append(Tail(microtasks), Job("mw", r))
  /\ UNCHANGED <<cached, connects, attempt, req, dropped>>
  /\ UNCHANGED <<mediaVars, legacyVars, callVars, bootVars>>

\* the middleware after await initializeDB(): next()
middleware_next ==
  /\ ~Quiet /\ Head(microtasks).kind = "mw"
  /\ req' = [req EXCEPT ![Head(microtasks).n].pc = "next"]
  /\ microtasks' = Tail(microtasks)
  /\ UNCHANGED <<cached, dbConnected, connects, attempt, dropped>>
  /\ UNCHANGED <<mediaVars, legacyVars, callVars, bootVars>>

\* the connection behind the cached handle emits 'error' or 'disconnected';
\* this connectDB registers no listener for either
healthSignal ==
  /\ Quiet
  /\ cached.conn # Null /\ cached.conn \notin dropped
  /\ dropped' = dropped \cup {cached.conn}
  /\ UNCHANGED <<cached, dbConnected, connects, attempt, req, microtasks>>
  /\ UNCHANGED <<mediaVars, legacyVars, callVars, bootVars>>

CacheInit ==
  /\ cached = [conn |-> Null, promise |-> Null]
  /\ dbConnected = FALSE
  /\ connects = 0
  /\ attempt = [a \in Attempts |-> NoAttempt]
  /\ req = [r \in Reqs |-> IdleReq]
  /\ microtasks = <<>>
  /\ dropped = {}

CacheNext ==
  \/ \E r \in Reqs : middleware(r)
  \/ \E r \in Reqs : server(r)
  \/ \E a \in Attempts : connectSettles(a)
  \/ thenHandler
  \/ catchHandler
  \/ connectDB_resume
  \/ initializeDB_resume
  \/ middleware_next
  \/ healthSignal

\* ================================== the earlier connectDB (module-level conn)
\* connectDB up to its await: the existing handle, or its own mongoose.connect
legacyConnectDB(r) ==
  /\ running
  /\ req[r].pc \in {"idle", "done"}
  /\ IF conn # Null
     THEN /\ req' = [req EXCEPT ![r] = [Arriving(r, "legacy") EXCEPT
                       !.pc = "done", !.handle = conn,
                       !.afterSignal = conn \in dropped]]
          /\ UNCHANGED <<connects, attempt>>
     ELSE /\ connects < MaxConnects
          /\ connects' = connects + 1
          /\ attempt' = [attempt EXCEPT ![connects + 1] =
                           [state |-> "pending", io |-> "inflight", waiters |-> <<r>>]]
          /\ req' = [req EXCEPT ![r] = [Arriving(r, "legacy") EXCEPT
                       !.pc = "awaiting", !.awaited = connects + 1, !.started = TRUE,
                       !.afterSignal = dropped # {}]]
  /\ UNCHANGED <<conn, listeners, running, dropped>>
  /\ UNCHANGED <<mediaVars, cached, dbConnected, microtasks, callVars, bootVars>>

\* mongoose.connect resolves: conn is set, the handlers are registered
legacyConnected(a) ==
  /\ running
  /\ attempt[a].io = "inflight" /\ attempt[a].waiters # <<>>
  /\ LET r == attempt[a].waiters[1]
     IN  /\ req[r].via = "legacy" /\ req[r].pc = "awaiting"
         /\ conn' = a
         /\ listeners' = listeners + 1
         /\ attempt' = [attempt EXCEPT ![a].io = "ok", ![a].state = "fulfilled"]
         /\ req' = [req EXCEPT ![r].pc = "done", ![r].handle = a]
  /\ UNCHANGED <<connects, running, dropped>>
  /\ UNCHANGED <<mediaVars, cached, dbConnected, microtasks, callVars, bootVars>>

\* mongoose.connect rejects: the catch block logs and calls process.exit(1)
legacyConnectFailed(a) ==
  /\ running
  /\ attempt[a].io = "inflight" /\ attempt[a].waiters # <<>>
  /\ LET r == attempt[a].waiters[1]
     IN  /\ req[r].via = "legacy" /\ req[r].pc = "awaiting"
         /\ attempt' = [attempt EXCEPT ![a].io = "err", ![a].state = "rejected"]
         /\ req' = [req EXCEPT ![r].pc = "done", ![r].failed = TRUE]
  /\ running' = FALSE
  /\ UNCHANGED <<conn, listeners, connects, dropped>>
  /\ UNCHANGED <<mediaVars, cached, dbConnected, microtasks, callVars, bootVars>>

\* mongoose.connection emits 'error' or 'disconnected': every registered
\* handler sets conn = null
legacySignal ==
  /\ running
  /\ \E h \in Attempts : attempt[h].state = "fulfilled"
  /\ conn' = IF listeners > 0 THEN Null ELSE conn
  /\ dropped' = dropped \cup {h \in Attempts : attempt[h].state = "fulfilled"}
  /\ UNCHANGED <<listeners, running, connects, attempt, req>>
  /\ UNCHANGED <<mediaVars, cached, dbConnected, microtasks, callVars, bootVars>>

\* SIGINT once a handler is registered: the connection is closed, process.exit(0)
legacySigint ==
  /\ running
  /\ listeners > 0
  /\ running' = FALSE
  /\ UNCHANGED <<conn, listeners, connects, attempt, req, dropped>>
  /\ UNCHANGED <<mediaVars, cached, dbConnected, microtasks, callVars, bootVars>>

LegacyInit ==
  /\ conn = Null
  /\ listeners = 0
  /\ running = TRUE

LegacyNext ==
  \/ \E r \in Reqs : legacyConnectDB(r)
  \/ \E a \in Attempts : legacyConnected(a)
  \/ \E a \in Attempts : legacyConnectFailed(a)
  \/ legacySignal
  \/ legacySigint

\* ================================================== connection cache claims
InFlight == {a \in Attempts : attempt[a].io = "inflight"}
Resumed(r) == req[r].pc \notin {"idle", "awaiting"}

\* C2: concurrent connectDB calls against a cold cache start exactly one
\* underlying connect attempt (never two in flight, all concurrent waiters
\* await the same attempt, one of them started it) and every caller of one
\* attempt gets the same outcome: the same handle, or the same failure.
Thm_C2 ==
  /\ Cardinality(InFlight) <= 1
  /\ \A r1, r2 \in Reqs :
       (req[r1].pc = "awaiting" /\ req[r2].pc = "awaiting")
         => req[r1].awaited = req[r2].awaited
  /\ \A a \in Attempts :
       Cardinality({r \in Reqs : req[r].awaited = a /\ req[r].started}) <= 1
  /\ \A r1, r2 \in Reqs :
       (req[r1].awaited # Null /\ req[r1].awaited = req[r2].awaited
          /\ Resumed(r1) /\ Resumed(r2))
         => (req[r1].handle = req[r2].handle /\ req[r1].failed = req[r2].failed)

Wit_C2 ==
  \E r1, r2 \in Reqs :
    /\ r1 # r2
    /\ req[r1].started /\ ~req[r2].started
    /\ req[r1].awaited # Null /\ req[r1].awaited = req[r2].awaited
    /\ Finished(r1) /\ Finished(r2)
    /\ req[r1].handle # Null /\ req[r1].handle = req[r2].handle
    /\ connects = 1

\* C8: after a connection-health signal for the acquired handle, the next
\* acquire() of a request performs a fresh connect attempt and does not
\* return the stale handle.
CE_C8 ==
  \A r \in Reqs :
    (req[r].afterSignal /\ Finished(r))
      => (req[r].awaited # Null /\ req[r].handle \notin dropped)

\* C9: a failed acquisition is not cached: afterwards the cache holds no
\* handle and no pending acquisition, and the next connectDB call starts a
\* new connect attempt which, if it succeeds, returns its handle.
Thm_C9 ==
  /\ LatestFailed => (cached.conn = Null /\ cached.promise = Null)
  /\ \A r \in Reqs :
       (req[r].afterFailure /\ req[r].pc # "idle") =>
         /\ req[r].started
         /\ (Resumed(r) /\ attempt[req[r].awaited].state = "fulfilled")
              => (req[r].handle = req[r].awaited /\ ~req[r].failed)

Wit_C9 ==
  \E r \in Reqs :
    /\ req[r].afterFailure /\ req[r].started /\ Finished(r)
    /\ req[r].handle # Null /\ req[r].handle = cached.conn

\* C10: a failed connection acquisition never terminates the process.
CE_C10 == (\E a \in Attempts : attempt[a].state = "rejected") => running

\* C11: when connectDB fails for a request, the request ends Unavailable
\* (503) and its mutation sequence is not started: next() is never reached.
CE_C11 ==
  \A r \in Reqs :
    (req[r].via = "middleware" /\ req[r].failed) => req[r].pc # "next"

\* C27: once an acquisition has succeeded and no health signal has occurred
\* since, every later connectDB call returns that same handle at once and
\* starts no connect attempt: the number of connect attempts stays unchanged.
Thm_C27 ==
  [][\A r \in Reqs :
       (cached.conn # Null /\ cached.conn \notin dropped /\ Quiet
          /\ req'[r] # req[r] /\ (req'[r].via = "server" \/ ~dbConnected)) =>
         /\ connects' = connects /\ attempt' = attempt /\ cached' = cached
         /\ req'[r].handle = cached.conn
         /\ req'[r].awaited = Null /\ ~req'[r].failed]_cacheVars

Wit_C27 ==
  \E r1, r2 \in Reqs :
    /\ r1 # r2
    /\ req[r1].started /\ req[r1].handle # Null
    /\ req[r2].pc # "idle" /\ req[r2].awaited = Null
    /\ req[r2].handle = req[r1].handle /\ req[r2].handle = cached.conn
    /\ cached.conn \notin dropped
    /\ connects = 1

\* C32: the failure cleanup of a connect attempt (cached.promise = null in
\* the promise's catch handler and in each waiter's catch block) never clears
\* the pending promise of a newer attempt: whenever a step clears a cached
\* promise, it is the one whose connect failed and no attempt is in flight.
Thm_C32 ==
  [][(cached.promise # Null /\ cached'.promise = Null) =>
       (attempt[cached.promise].io = "err" /\ InFlight = {})]_cacheVars

Wit_C32 ==
  \E r1, r2, r3 \in Reqs : \E a1, a2 \in Attempts :
    /\ r1 # r2 /\ a1 # a2
    /\ req[r1].awaited = a1 /\ req[r2].awaited = a1
    /\ req[r1].failed /\ req[r2].failed /\ Finished(r1) /\ Finished(r2)
    /\ attempt[a1].state = "rejected"
    /\ req[r3].awaited = a2 /\ req[r3].started
    /\ attempt[a2].io = "inflight" /\ cached.promise = a2

\* ======================================================= extractPublicId
UrlTokens == {"a", "jpg", ".", "/"}

RECURSIVE Strings(_)
\* the token strings of length n
Strings(n) ==
  IF n = 0 THEN {<<>>}
  ELSE {Append(s, t) : s \in Strings(n - 1), t \in UrlTokens}

Tails == UNION {Strings(n) : n \in 0..MaxTailLen}

\* the argument of a call: undefined, a bare string, or <base-url>/<tail>
Undefined == [defined |-> FALSE, str |-> <<>>]
Str(s) == [defined |-> TRUE, str |-> s]
Arguments ==
  {Undefined} \cup {Str(t) : t \in Tails} \cup {Str(BaseUrl \o <<"/">> \o t) : t \in Tails}

NoCall == [pc |-> "idle", arg |-> Undefined, value |-> <<>>]
Pending(arg) == [pc |-> "called", arg |-> arg, value |-> <<>>]

\* the try/catch around the splits: url.split of a non-string throws, and the
\* catch rethrows 'Invalid Cloudinary URL format'; any string returns
extractPublicId_try(c) ==
  IF ~c.arg.defined
  THEN [c EXCEPT !.pc = "threw"]
  ELSE [c EXCEPT !.pc = "returned", !.value = extractPublicId(c.arg.str)]

extractPublicId_call ==
  /\ call.pc = "called"
  /\ call' = extractPublicId_try(call)
  /\ UNCHANGED <<mediaVars, cacheVars, legacyVars, bootVars>>

CallIdle == call = NoCall
CallInit == call \in {Pending(arg) : arg \in Arguments}
CallNext == extractPublicId_call

\* the last path segment of a string and the position of its last "."
LastSegment(s) == LET parts == Split(s, "/") IN parts[Len(parts)]
Has(s, tok) == \E k \in DOMAIN s : s[k] = tok
LastDot(f) == CHOOSE k \in DOMAIN f : f[k] = "." /\ \A j \in DOMAIN f : j > k => f[j] # "."

\* <base-url>/<public-id>.<ext>: the last segment is a non-empty stem, a "."
\* and one extension token
IsReference(s) ==
  /\ Len(s) > Len(BaseUrl) + 1
  /\ SubSeq(s, 1, Len(BaseUrl) + 1) = BaseUrl \o <<"/">>
  /\ LET f == LastSegment(s)
     IN  /\ Len(f) >= 3
         /\ f[Len(f) - 1] = "."
         /\ f[Len(f)] \notin {".", "/"}
         /\ f[1] # "."

\* C19: for every reference <base-url>/<public-id>.<ext> extractPublicId
\* returns the last path segment with only its final extension removed, also
\* when the public id itself contains a ".".
CE_C19 ==
  (call.pc # "called" /\ call.arg.defined /\ IsReference(call.arg.str)) =>
    /\ call.pc = "returned"
    /\ LET f == LastSegment(call.arg.str)
       IN  call.value = SubSeq(f, 1, LastDot(f) - 1)

\* C20: extractPublicId fails with MalformedReference for every reference
\* that has no path segment or whose last path segment has no "."; it never
\* returns a public id for such input.
CE_C20 ==
  (call.pc # "called" /\ call.arg.defined
     /\ (~Has(call.arg.str, "/") \/ ~Has(LastSegment(call.arg.str), "."))) =>
    call.pc = "threw"

\* ========================================================= process start
CloudKeys == {"CLOUDINARY_CLOUD_NAME", "CLOUDINARY_API_KEY", "CLOUDINARY_API_SECRET"}
EnvKeys == CloudKeys \cup {"MONGODB_URI"}
\* process.env[key]: undefined, the empty string, or a value
EnvValues == {"unset", "empty", "set"}
Envs == [EnvKeys -> EnvValues]

\* !process.env[key]
Falsy(v) == v \in {"unset", "empty"}

BootOff == [pc |-> "off", env |-> [k \in EnvKeys |-> "set"], db |-> "none"]
Loading(env) == [pc |-> "loading", env |-> env, db |-> "none"]

\* required.filter(key => !process.env[key])
Missing(env) == {k \in CloudKeys : Falsy(env[k])}

\* the module throws while it is being required, or goes on to cloudinary.config
validateCloudinaryConfig ==
  /\ boot.pc = "loading"
  /\ boot' = [boot EXCEPT !.pc = IF Missing(boot.env) # {} THEN "failed" ELSE "configured"]
  /\ UNCHANGED <<mediaVars, cacheVars, legacyVars, callVars>>

\* module.exports = app: the app is handed to the platform and takes requests
exportApp ==
  /\ boot.pc = "configured"
  /\ boot' = [boot EXCEPT !.pc = "serving"]
  /\ UNCHANGED <<mediaVars, cacheVars, legacyVars, callVars>>

\* the first request's initializeDB: mongoose.connect(process.env.MONGODB_URI)
\* rejects without a URI, and may fail with one; the error is logged
initializeDB ==
  /\ boot.pc = "serving" /\ boot.db = "none"
  /\ \E ok \in BOOLEAN :
       boot' = [boot EXCEPT !.db = IF ok /\ ~Falsy(boot.env["MONGODB_URI"])
                                    THEN "connected" ELSE "failed"]
  /\ UNCHANGED <<mediaVars, cacheVars, legacyVars, callVars>>

BootIdle == boot = BootOff
BootInit == boot \in {Loading(env) : env \in Envs}
BootNext == validateCloudinaryConfig \/ exportApp \/ initializeDB

\* C25: if any required credential or the persistent-store URI is absent at
\* process start, startup fails at once: the process does not reach the state
\* in which it serves requests.
CE_C25 ==
  boot.pc = "serving" => \A k \in EnvKeys : ~Falsy(boot.env[k])

\* ============================================================== deadlines
\* calls on the mongoose connection: with bufferCommands false and
\* socketTimeoutMS set, each of them answers or fails within the deadline
DbStep(p) ==
  \/ createCourse_create(p)
  \/ updateCourse_find(p) \/ updateCourse_update(p)
  \/ deleteCourse_find(p) \/ deleteCourse_delete(p)

\* C24: every Create, Replace and Delete invocation eventually reaches a
\* terminal state, even if the blob store never answers a call.
CE_C24 ==
  \A p \in Procs : (inv[p].pc \notin {"idle", "done"}) ~> (inv[p].pc = "done")

\* ============================================================ specifications
vars == <<mediaVars, cacheVars, legacyVars, callVars, bootVars>>
Init == MediaInit /\ CacheInit /\ LegacyInit /\ CallIdle /\ BootIdle
Next == MediaNext
Spec == Init /\ [][Next]_vars
SpecCache == Init /\ [][CacheNext]_vars
SpecLegacy == Init /\ [][LegacyNext]_vars
InitCall == MediaInit /\ CacheInit /\ LegacyInit /\ CallInit /\ BootIdle
InitRace == RaceInit /\ CacheInit /\ LegacyInit /\ CallIdle /\ BootIdle
SpecRace == InitRace /\ [][RaceNext]_vars
InitBoot == MediaInit /\ CacheInit /\ LegacyInit /\ CallIdle /\ BootInit
SpecBoot == InitBoot /\ [][BootNext]_vars
SpecLive == Init /\ [][Next]_vars /\ WF_vars(DbStep(Main))
SpecCall == InitCall /\ [][CallNext]_vars
====
